---- MODULE Spec2Model ----
(***************************************************************************)
(* A model of the ssz codec core (src/ssz.go): the offset-table decoding   *)
(* helpers decodeSliceLength and DecodeSlice, and the pooled Encode and    *)
(* Decode entry points.                                                    *)
(*                                                                         *)
(* Three specifications share the module.  Spec applies the slice         *)
(* decoders to sources, limits and item caps drawn from bounded sets.      *)
(* PoolSpec runs concurrent Encode/Decode calls against the two sync.Pool  *)
(* pools.  CodecSpec runs one Encode of a value, operation by operation,   *)
(* and then the Decode of the bytes it wrote.                              *)
(***************************************************************************)
EXTENDS Integers, Sequences, FiniteSets, TLC

VARIABLES
    r,          \* the io.Reader handed to the slice decoder: its bytes
    limit,      \* the byte budget of the list region (int)
    maxitems,   \* the schema cap on the number of items (int)
    pc,         \* "ready", or the name of the function that has returned
    res,        \* what the function returned and what it consumed
    encoderPool,  \* the idle *Encoder instances held by encoderPool
    decoderPool,  \* the idle *Decoder instances held by decoderPool
    encLive,    \* the *Encoder instances that exist (not yet collected)
    decLive,    \* the *Decoder instances that exist (not yet collected)
    encs,       \* the fields of every Encoder: out, err
    decs,       \* the fields of every Decoder: in, length, err
    calls,      \* every goroutine's position in its Encode/Decode call
    codec       \* one Encode of a value and the Decode of what it wrote

sliceVars == <<r, limit, maxitems, pc, res>>
poolVars == <<encoderPool, decoderPool, encLive, decLive, encs, decs, calls>>
vars == <<r, limit, maxitems, pc, res,
          encoderPool, decoderPool, encLive, decLive, encs, decs, calls,
          codec>>

-----------------------------------------------------------------------------
(* Bounds of the model.                                                    *)

\* The longest source, in whole 4-byte words, besides the long tables.
MaxWords == 2

\* The Encoder and the Decoder instances that can exist at a time.
MaxCtx == 2

\* The calls of Encode and Decode made in a run, all goroutines together.
MaxCalls == 3

\* The longest list of dynamic elements encoded, besides the lists of 64.
MaxList == 2

-----------------------------------------------------------------------------
(* Errors.  An error value carries the sentinel its text names and the     *)
(* sentinel errors.Is finds by unwrapping it ("nil" when it wraps none).   *)

Nil == [text |-> "nil", unwrap |-> "nil"]

Sentinel(name) == [text |-> name, unwrap |-> name]

\* fmt.Errorf with the sentinel as first operand: %w wraps it, %s only
\* prints it.
Errorf(verb, name) ==
    [text |-> name, unwrap |-> IF verb = "%w" THEN name ELSE "nil"]

-----------------------------------------------------------------------------
(* Bytes and the little-endian 32-bit word.                                *)

\* A plausible slip: the word read most significant byte first.
Uint32BigEndian(b) == b[4] + 256 * b[3] + 65536 * b[2] + 16777216 * b[1]

\* binary.LittleEndian.Uint32 of a 4-byte buffer.
Uint32(b) == b[1] + 256 * b[2] + 65536 * b[3] + 16777216 * b[4]

\* The 4 bytes a 32-bit offset occupies on the wire, least significant first.
PutUint32(v) ==
    << v % 256, (v \div 256) % 256, (v \div 65536) % 256,
       (v \div 16777216) % 256 >>

\* The bytes of the source after the first n.
Drop(src, n) == SubSeq(src, n + 1, Len(src))

\* io.ReadFull(r, buf) with len(buf) = n on a source that holds src: the
\* bytes read, how many, and io.EOF (none read) or io.ErrUnexpectedEOF
\* (some read) when the source ends early.
ReadFull(src, n) ==
    IF Len(src) >= n
    THEN [buf |-> SubSeq(src, 1, n), n |-> n, err |-> Nil]
    ELSE IF Len(src) = 0
         THEN [buf |-> <<>>, n |-> 0, err |-> Sentinel("EOF")]
         ELSE [buf |-> src, n |-> Len(src),
               err |-> Sentinel("ErrUnexpectedEOF")]

-----------------------------------------------------------------------------
(* decodeSliceLength                                                       *)

\* A plausible slip: the mask is 0xf0, the high nibble of the low byte.
BadCounterOffsetF0(length) == (length \div 16) % 16 > 0

\* length&0xff > 0: the test that rejects the first offset.  The mask 0xff
\* keeps the low byte, so the test passes multiples of 256 only.
BadCounterOffset(length) == length % 256 > 0

\* A plausible slip: the limit == 0 shortcut is missing.
decodeSliceLengthNoEmpty(src, lim) ==
    IF lim < 4
    THEN [items |-> 0, err |-> Errorf("%w", "ErrShortOffset"), n |-> 0]
    ELSE LET rf == ReadFull(src, 4) IN
         IF rf.err # Nil
         THEN [items |-> 0, err |-> rf.err, n |-> rf.n]
         ELSE LET length == Uint32(rf.buf) IN
              IF BadCounterOffset(length)
              THEN [items |-> 0, err |-> Errorf("%s", "ErrBadCouterOffset"),
                    n |-> rf.n]
              ELSE [items |-> length \div 4, err |-> Nil, n |-> rf.n]

\* A plausible slip: the short-offset test is off by one (limit < 3).
decodeSliceLengthShort3(src, lim) ==
    IF lim = 0
    THEN [items |-> 0, err |-> Nil, n |-> 0]
    ELSE IF lim < 3
    THEN [items |-> 0, err |-> Errorf("%w", "ErrShortOffset"), n |-> 0]
    ELSE LET rf == ReadFull(src, 4) IN
         IF rf.err # Nil
         THEN [items |-> 0, err |-> rf.err, n |-> rf.n]
         ELSE LET length == Uint32(rf.buf) IN
              IF BadCounterOffset(length)
              THEN [items |-> 0, err |-> Errorf("%s", "ErrBadCouterOffset"),
                    n |-> rf.n]
              ELSE [items |-> length \div 4, err |-> Nil, n |-> rf.n]

\* A plausible slip: the first offset shifted one bit too far.
ItemCountShift3(length) == length \div 8

\* int(length >> 2): the item count a first offset stands for.
ItemCount(length) == length \div 4

\* decodeSliceLength(r, limit): the item count, the error, and the number
\* of bytes it took off the stream.
decodeSliceLength(src, lim) ==
    IF lim = 0
    THEN [items |-> 0, err |-> Nil, n |-> 0]
    ELSE IF lim < 4
    THEN [items |-> 0, err |-> Errorf("%w", "ErrShortOffset"), n |-> 0]
    ELSE LET rf == ReadFull(src, 4) IN
         IF rf.err # Nil
         THEN [items |-> 0, err |-> rf.err, n |-> rf.n]
         ELSE LET length == Uint32(rf.buf) IN
              IF BadCounterOffset(length)
              THEN [items |-> 0, err |-> Errorf("%s", "ErrBadCouterOffset"),
                    n |-> rf.n]
              ELSE [items |-> ItemCount(length), err |-> Nil, n |-> rf.n]

-----------------------------------------------------------------------------
(* DecodeSlice                                                             *)

\* A plausible slip: the cap admits one item too many.
MaxItemsExceededOffByOne(items, cap) == items > cap + 1

\* items > maxitems: the test that rejects an oversized list.
MaxItemsExceeded(items, cap) == items > cap

\* Slot j of the offset table that follows position pos of the stream.
SlotAt(src, pos, j) == Uint32(SubSeq(src, pos + 4 * j - 3, pos + 4 * j))

\* The offset slots after the first: k more slots are read, 4 bytes each,
\* from position pos of the stream, onto the table that begins with first.
\* Reading stops at the first slot smaller than the one before it (an
\* ordering error) or where the stream ends.  n counts the bytes taken off
\* the stream.
ReadOffsets(src, pos, first, k) ==
    LET whole == IF k <= 0 THEN 0
                 ELSE IF (Len(src) - pos) \div 4 < k
                      THEN (Len(src) - pos) \div 4 ELSE k
        entry(j) == IF j = 0 THEN first ELSE SlotAt(src, pos, j)
        bad == { j \in 1..whole : entry(j) < entry(j - 1) }
        stop == IF bad = {} THEN whole
                ELSE CHOOSE j \in bad : \A i \in bad : j <= i
        table == [j \in 1..(stop + 1) |-> entry(j - 1)]
    IN  IF bad # {}
        THEN [offsets |-> table, err |-> Sentinel("ErrOffsetOrdering"),
              n |-> 4 * stop]
        ELSE IF whole < k
        THEN LET rf == ReadFull(Drop(src, pos + 4 * whole), 4)
             IN  [offsets |-> table, err |-> rf.err, n |-> 4 * whole + rf.n]
        ELSE [offsets |-> table, err |-> Nil, n |-> 4 * whole]

\* A plausible slip: the span of the last element stops one byte short of
\* the end of the region.
SpanLenShortLast(offsets, lim, i) ==
    (IF i < Len(offsets) THEN offsets[i + 1] ELSE lim - 1) - offsets[i]

\* The byte span of element i of the table: up to the next offset, and for
\* the last element up to the end of the region.
SpanLen(offsets, lim, i) ==
    (IF i < Len(offsets) THEN offsets[i + 1] ELSE lim) - offsets[i]

\* The elements, decoded in offset order, the stream at position pos: each
\* is handed its span as byte budget and reads that many bytes.  Decoding
\* stops at the first element whose span is negative or runs past the end
\* of the stream.  elems lists the budgets of the elements decoded.
DecodeElements(src, pos, offsets, lim) ==
    LET count == Len(offsets)
        start(i) == pos + offsets[i] - offsets[1]
        fails == { i \in 1..count :
                     \/ SpanLen(offsets, lim, i) < 0
                     \/ start(i) + SpanLen(offsets, lim, i) > Len(src) }
        stop == IF fails = {} THEN count + 1
                ELSE CHOOSE i \in fails : \A j \in fails : i <= j
        done == [i \in 1..(stop - 1) |-> SpanLen(offsets, lim, i)]
    IN  IF fails = {}
        THEN [elems |-> done, err |-> Nil,
              n |-> IF count = 0 THEN 0 ELSE offsets[count] - offsets[1]
                                           + SpanLen(offsets, lim, count)]
        ELSE IF SpanLen(offsets, lim, stop) < 0
        THEN [elems |-> done, err |-> Sentinel("ErrBudgetExceeded"),
              n |-> start(stop) - pos]
        ELSE LET rf == ReadFull(Drop(src, start(stop)),
                                SpanLen(offsets, lim, stop))
             IN  [elems |-> done, err |-> rf.err,
                  n |-> start(stop) - pos + rf.n]

\* What DecodeSlice does once the count has passed the cap, the stream at
\* position pos: the rest of the offset table, then the elements.
DecodeSliceBody(src, pos, first, items, lim) ==
    IF items = 0
    THEN [err |-> Nil, n |-> 0, offsets |-> <<>>, elems |-> <<>>]
    ELSE LET t == ReadOffsets(src, pos, first, items - 1) IN
         IF t.err # Nil
         THEN [err |-> t.err, n |-> t.n, offsets |-> t.offsets,
               elems |-> <<>>]
         ELSE LET e == DecodeElements(src, pos + t.n, t.offsets, lim)
              IN  [err |-> e.err, n |-> t.n + e.n, offsets |-> t.offsets,
                   elems |-> e.elems]

\* DecodeSlice(r, kind, limit, maxitems): the error, the bytes taken off
\* the stream, the offset table read and the budgets of the elements
\* decoded.  kind only names the list in the error text.
DecodeSlice(src, lim, cap) ==
    LET d == decodeSliceLength(src, lim) IN
    IF d.err # Nil
    THEN [err |-> d.err, n |-> d.n, offsets |-> <<>>, elems |-> <<>>]
    ELSE IF MaxItemsExceeded(d.items, cap)
    THEN [err |-> Errorf("%w", "ErrMaxItemsExceeded"), n |-> d.n,
          offsets |-> <<>>, elems |-> <<>>]
    ELSE LET b == DecodeSliceBody(src, d.n, 4 * d.items, d.items, lim)
         IN  [b EXCEPT !.n = @ + d.n]

-----------------------------------------------------------------------------
(* The inputs of the slice decoders.                                       *)

\* First-offset and offset-slot values: 0, not a multiple of 4, multiples
\* of 4 below 256, a multiple of 256, and one just above it.
Words == {0, 1, 4, 8, 256, 258}

\* The wire bytes of a sequence of offsets.
Wire(ws) ==
    [i \in 1..(4 * Len(ws)) |->
        PutUint32(ws[((i - 1) \div 4) + 1])[((i - 1) % 4) + 1]]

\* Up to three stray bytes after the last whole word.
Strays == { [i \in 1..k |-> 1] : k \in 0..3 }

ShortSources ==
    { Wire(ws) \o t : ws \in UNION { [1..k -> Words] : k \in 0..MaxWords },
                      t \in Strays }

\* Tables of 64 offsets (first offset 256) with 4 payload bytes: all
\* elements empty but the last; the last two elements of 2 bytes each; and
\* a table whose third entry is below the second.
LongSources ==
    { Wire([i \in 1..64 |-> 256]) \o <<1, 1, 1, 1>>,
      Wire([i \in 1..64 |-> IF i = 64 THEN 258 ELSE 256]) \o <<1, 1, 1, 1>>,
      Wire([i \in 1..64 |-> IF i = 3 THEN 252 ELSE 256]) \o <<1, 1, 1, 1>> }

Sources == ShortSources \cup LongSources

Limits == {-1, 0, 1, 2, 3, 4, 8, 256, 260}

Caps == {-1, 0, 2, 63, 64}

NoResult == [items |-> 0, err |-> Nil, n |-> 0]

-----------------------------------------------------------------------------
(* The pools, the contexts and the calls.                                  *)

\* The goroutines that call Encode and Decode.
Procs == {1, 2}

\* The Encoder instances, and likewise the Decoder instances.
Ctxs == 1..MaxCtx

\* The size arguments of Decode.
Sizes == {0, 6}

\* The io.Writer or io.Reader of call k of goroutine p; NoRef is nil.
Ref(p, k) == [p |-> p, k |-> k]

NoRef == Ref(0, 0)

\* The error an object latches in the context during call k of goroutine p;
\* by records the call it arose in.
ErrOf(p, k) == [text |-> "ErrObject", unwrap |-> "ErrObject", by |-> Ref(p, k)]

\* What a panicking call yields instead of a return value.
Panic == [text |-> "panic", unwrap |-> "nil"]

\* new(Encoder) and new(Decoder): the zero values.
NewEncoder == [out |-> NoRef, err |-> Nil]

NewDecoder == [in |-> NoRef, length |-> 0, err |-> Nil]

\* The instance New allocates, live being the instances that exist: the
\* first one unused, and 0 (no instance) when MaxCtx exist already.
Fresh(live) ==
    IF Ctxs \subseteq live THEN 0
    ELSE CHOOSE c \in Ctxs \ live : \A d \in Ctxs \ live : c <= d

\* A plausible slip: Get hands an item out and leaves it in the pool.
PoolPeek(pool, c) == pool

\* sync.Pool.Get, an item being chosen: the item leaves the pool.
PoolTake(pool, c) == pool \ {c}

\* A plausible slip: Put runs at the end of the body instead of being
\* deferred, so a panicking call skips it.
PoolPutUnlessPanic(pool, c, panicking) ==
    IF panicking THEN pool ELSE pool \cup {c}

\* defer pool.Put(ctx): the item joins the pool however the call ends.
PoolPut(pool, c, panicking) == pool \cup {c}

\* A plausible slip: the sink is rebound and the error slot is left alone.
BindEncoderKeepErr(e, w) == [e EXCEPT !.out = w]

\* enc.out, enc.err = w, nil
BindEncoder(e, w) == [e EXCEPT !.out = w, !.err = Nil]

\* A plausible slip: the source is rebound and the budget is left alone.
BindDecoderKeepBudget(d, src, size) == [d EXCEPT !.in = src, !.err = Nil]

\* dec.in, dec.length, dec.err = r, size, nil
BindDecoder(d, src, size) ==
    [d EXCEPT !.in = src, !.length = size, !.err = Nil]

\* The error slot after an operation of the object has failed with e: the
\* first error stays.
Latch(err, e) == IF err = Nil THEN e ELSE err

\* What the object worked on during the call: the sink or source the
\* context named and, for a Decoder, the budget it held when the object
\* was run.  NoUse before that.
Use(io, length) == [io |-> io, length |-> length]

NoUse == Use(NoRef, 0)

\* A goroutine between two calls.
Idle(k) ==
    [pc |-> "idle", fn |-> "none", k |-> k, ctx |-> 0, io |-> NoRef,
     size |-> 0, ret |-> Nil, got |-> NewDecoder, puts |-> 0,
     obj |-> "none", used |-> NoUse]

\* The calls started so far, all goroutines together.
Started == calls[1].k + calls[2].k

\* The positions of a call at which it holds its context.
Holding == {"acquired", "bound", "ran", "panicking", "returning"}

PoolInit ==
    /\ encoderPool = {}
    /\ decoderPool = {}
    /\ encLive = {}
    /\ decLive = {}
    /\ encs = [c \in Ctxs |-> NewEncoder]
    /\ decs = [c \in Ctxs |-> NewDecoder]
    /\ calls = [p \in Procs |-> Idle(0)]

\* The slice decoders take no step under PoolSpec.
SliceIdle ==
    /\ r = <<>>
    /\ limit = 0
    /\ maxitems = 0
    /\ pc = "ready"
    /\ res = NoResult

\* No value: what a Decode has reconstructed before it starts.
NoValue == [kind |-> "none", a |-> 0, b |-> <<>>, items |-> <<>>]

\* The codec call pair before it is given a value: nothing to encode, the
\* contexts as New allocates them.
NoCodec ==
    [pc |-> "idle", val |-> NoValue, room |-> 0, sizeArg |-> 0, cap |-> 0,
     enc |-> NewEncoder, sink |-> <<>>, todo |-> <<>>, ops |-> 0,
     encRet |-> Nil,
     dec |-> NewDecoder, size |-> 0, dtodo |-> <<>>, nread |-> 0,
     grew |-> FALSE, out |-> NoValue, decRet |-> Nil]

\* No value is encoded under Spec and PoolSpec.
CodecIdle == codec = NoCodec

\* Encode, line 59: enc := encoderPool.Get().(*Encoder), and the deferred
\* Put is registered.  Get hands out an idle item of the pool, or, the pool
\* being empty or ignored, the result of New.
EncodeGet(p) ==
    /\ calls[p].pc \in {"idle", "done"}
    /\ Started < MaxCalls
    /\ \E c \in Ctxs :
          /\ \/ /\ c \in encoderPool
                /\ encoderPool' = PoolTake(encoderPool, c)
                /\ UNCHANGED <<encLive, encs>>
             \/ /\ c = Fresh(encLive)
                /\ encLive' = encLive \cup {c}
                /\ encs' = [encs EXCEPT ![c] = NewEncoder]
                /\ UNCHANGED encoderPool
          /\ calls' = [calls EXCEPT ![p] =
                [pc |-> "acquired", fn |-> "Encode", k |-> calls[p].k + 1,
                 ctx |-> c, io |-> Ref(p, calls[p].k + 1), size |-> 0,
                 ret |-> Nil,
                 got |-> [in |-> encs'[c].out, length |-> 0,
                          err |-> encs'[c].err],
                 puts |-> 0, obj |-> "none", used |-> NoUse]]
    /\ UNCHANGED <<decoderPool, decLive, decs>>
    /\ UNCHANGED sliceVars
    /\ UNCHANGED codec

\* Encode, line 62: enc.out, enc.err = w, nil
EncodeBind(p) ==
    /\ calls[p].pc = "acquired"
    /\ calls[p].fn = "Encode"
    /\ encs' = [encs EXCEPT ![calls[p].ctx] = BindEncoder(@, calls[p].io)]
    /\ calls' = [calls EXCEPT ![p].pc = "bound"]
    /\ UNCHANGED <<encoderPool, decoderPool, encLive, decLive, decs>>
    /\ UNCHANGED sliceVars
    /\ UNCHANGED codec

\* Encode, line 63: obj.EncodeSSZ(enc).  The object succeeds, or an
\* operation of it fails and the error is latched, or it panics.
EncodeRun(p) ==
    /\ calls[p].pc = "bound"
    /\ calls[p].fn = "Encode"
    /\ \/ /\ calls' = [calls EXCEPT ![p].pc = "ran", ![p].got = NewDecoder,
                  ![p].obj = "ok",
                  ![p].used = Use(encs[calls[p].ctx].out, 0)]
          /\ UNCHANGED encs
       \/ /\ calls' = [calls EXCEPT ![p].pc = "ran", ![p].got = NewDecoder,
                  ![p].obj = "fail",
                  ![p].used = Use(encs[calls[p].ctx].out, 0)]
          /\ encs' = [encs EXCEPT ![calls[p].ctx].err =
                          Latch(@, ErrOf(p, calls[p].k))]
       \/ /\ calls' = [calls EXCEPT ![p].pc = "panicking",
                                     ![p].ret = Panic,
                                     ![p].got = NewDecoder,
                                     ![p].obj = "panic",
                  ![p].used = Use(encs[calls[p].ctx].out, 0)]
          /\ UNCHANGED encs
    /\ UNCHANGED <<encoderPool, decoderPool, encLive, decLive, decs>>
    /\ UNCHANGED sliceVars
    /\ UNCHANGED codec

\* Encode, line 64: return enc.err sets the result; the deferred Put has
\* yet to run.
EncodeReturn(p) ==
    /\ calls[p].pc = "ran"
    /\ calls[p].fn = "Encode"
    /\ calls' = [calls EXCEPT ![p].pc = "returning",
                              ![p].ret = encs[calls[p].ctx].err]
    /\ UNCHANGED <<encoderPool, decoderPool, encLive, decLive, encs, decs>>
    /\ UNCHANGED sliceVars
    /\ UNCHANGED codec

\* Encode, line 60: the deferred encoderPool.Put(enc) runs as the call
\* returns or unwinds.
EncodePut(p) ==
    /\ calls[p].pc \in {"returning", "panicking"}
    /\ calls[p].fn = "Encode"
    /\ encoderPool' = PoolPut(encoderPool, calls[p].ctx,
                              calls[p].pc = "panicking")
    /\ calls' = [calls EXCEPT ![p].pc = "done",
                              ![p].ctx = 0,
                              ![p].io = NoRef,
                              ![p].size = 0,
                              ![p].used = NoUse,
                              ![p].puts = @ + 1]
    /\ UNCHANGED <<decoderPool, encLive, decLive, encs, decs>>
    /\ UNCHANGED sliceVars
    /\ UNCHANGED codec

\* Decode, line 69: dec := decoderPool.Get().(*Decoder), and the deferred
\* Put is registered.
DecodeGet(p) ==
    /\ calls[p].pc \in {"idle", "done"}
    /\ Started < MaxCalls
    /\ \E c \in Ctxs, size \in Sizes :
          /\ \/ /\ c \in decoderPool
                /\ decoderPool' = PoolTake(decoderPool, c)
                /\ UNCHANGED <<decLive, decs>>
             \/ /\ c = Fresh(decLive)
                /\ decLive' = decLive \cup {c}
                /\ decs' = [decs EXCEPT ![c] = NewDecoder]
                /\ UNCHANGED decoderPool
          /\ calls' = [calls EXCEPT ![p] =
                [pc |-> "acquired", fn |-> "Decode", k |-> calls[p].k + 1,
                 ctx |-> c, io |-> Ref(p, calls[p].k + 1), size |-> size,
                 ret |-> Nil, got |-> decs'[c], puts |-> 0,
                 obj |-> "none", used |-> NoUse]]
    /\ UNCHANGED <<encoderPool, encLive, encs>>
    /\ UNCHANGED sliceVars
    /\ UNCHANGED codec

\* Decode, line 72: dec.in, dec.length, dec.err = r, size, nil
DecodeBind(p) ==
    /\ calls[p].pc = "acquired"
    /\ calls[p].fn = "Decode"
    /\ decs' = [decs EXCEPT ![calls[p].ctx] =
                    BindDecoder(@, calls[p].io, calls[p].size)]
    /\ calls' = [calls EXCEPT ![p].pc = "bound"]
    /\ UNCHANGED <<encoderPool, decoderPool, encLive, decLive, encs>>
    /\ UNCHANGED sliceVars
    /\ UNCHANGED codec

\* Decode, line 73: obj.DecodeSSZ(dec).  The object reads its budget out,
\* or an operation of it fails and the error is latched, or it panics.
DecodeRun(p) ==
    /\ calls[p].pc = "bound"
    /\ calls[p].fn = "Decode"
    /\ \/ /\ calls' = [calls EXCEPT ![p].pc = "ran", ![p].got = NewDecoder,
                  ![p].obj = "ok",
                  ![p].used = Use(decs[calls[p].ctx].in,
                                  decs[calls[p].ctx].length)]
          /\ decs' = [decs EXCEPT ![calls[p].ctx].length = 0]
       \/ /\ calls' = [calls EXCEPT ![p].pc = "ran", ![p].got = NewDecoder,
                  ![p].obj = "fail",
                  ![p].used = Use(decs[calls[p].ctx].in,
                                  decs[calls[p].ctx].length)]
          /\ decs' = [decs EXCEPT ![calls[p].ctx].err =
                          Latch(@, ErrOf(p, calls[p].k))]
       \/ /\ calls' = [calls EXCEPT ![p].pc = "panicking",
                                     ![p].ret = Panic,
                                     ![p].got = NewDecoder,
                                     ![p].obj = "panic",
                  ![p].used = Use(decs[calls[p].ctx].in,
                                  decs[calls[p].ctx].length)]
          /\ UNCHANGED decs
    /\ UNCHANGED <<encoderPool, decoderPool, encLive, decLive, encs>>
    /\ UNCHANGED sliceVars
    /\ UNCHANGED codec

\* Decode, line 74: return dec.err sets the result; the deferred Put has
\* yet to run.
DecodeReturn(p) ==
    /\ calls[p].pc = "ran"
    /\ calls[p].fn = "Decode"
    /\ calls' = [calls EXCEPT ![p].pc = "returning",
                              ![p].ret = decs[calls[p].ctx].err]
    /\ UNCHANGED <<encoderPool, decoderPool, encLive, decLive, encs, decs>>
    /\ UNCHANGED sliceVars
    /\ UNCHANGED codec

\* Decode, line 70: the deferred decoderPool.Put(dec) runs as the call
\* returns or unwinds.
DecodePut(p) ==
    /\ calls[p].pc \in {"returning", "panicking"}
    /\ calls[p].fn = "Decode"
    /\ decoderPool' = PoolPut(decoderPool, calls[p].ctx,
                              calls[p].pc = "panicking")
    /\ calls' = [calls EXCEPT ![p].pc = "done",
                              ![p].ctx = 0,
                              ![p].io = NoRef,
                              ![p].size = 0,
                              ![p].used = NoUse,
                              ![p].puts = @ + 1]
    /\ UNCHANGED <<encoderPool, encLive, decLive, encs, decs>>
    /\ UNCHANGED sliceVars
    /\ UNCHANGED codec

\* sync.Pool drops idle items at will (at a garbage collection): an idle
\* Encoder leaves encoderPool and is collected.
EncoderPoolDrop ==
    /\ \E c \in encoderPool :
          /\ encoderPool' = encoderPool \ {c}
          /\ encLive' = encLive \ {c}
          /\ encs' = [encs EXCEPT ![c] = NewEncoder]
    /\ UNCHANGED <<decoderPool, decLive, decs, calls>>
    /\ UNCHANGED sliceVars
    /\ UNCHANGED codec

\* Likewise an idle Decoder leaves decoderPool and is collected.
DecoderPoolDrop ==
    /\ \E c \in decoderPool :
          /\ decoderPool' = decoderPool \ {c}
          /\ decLive' = decLive \ {c}
          /\ decs' = [decs EXCEPT ![c] = NewDecoder]
    /\ UNCHANGED <<encoderPool, encLive, encs, calls>>
    /\ UNCHANGED sliceVars
    /\ UNCHANGED codec

\* The steps of goroutine p inside a call, once it has its context.
CallStep(p) ==
    \/ EncodeBind(p)
    \/ EncodeRun(p)
    \/ EncodeReturn(p)
    \/ EncodePut(p)
    \/ DecodeBind(p)
    \/ DecodeRun(p)
    \/ DecodeReturn(p)
    \/ DecodePut(p)

PoolNext ==
    \/ \E p \in Procs : EncodeGet(p)
    \/ \E p \in Procs : DecodeGet(p)
    \/ \E p \in Procs : CallStep(p)
    \/ EncoderPoolDrop
    \/ DecoderPoolDrop

\* Every call runs to completion on its goroutine: a call that can take a
\* step takes it.
PoolSpecInit == PoolInit /\ SliceIdle /\ CodecIdle

PoolSpec ==
    /\ PoolSpecInit
    /\ [][PoolNext]_vars
    /\ \A p \in Procs : WF_vars(CallStep(p))

-----------------------------------------------------------------------------
(* Spec: the slice decoders applied to every input.                        *)

Init ==
    /\ r \in Sources
    /\ limit \in Limits
    /\ maxitems \in Caps
    /\ pc = "ready"
    /\ res = NoResult
    /\ PoolInit
    /\ CodecIdle

\* A call of decodeSliceLength(r, limit).
CallDecodeSliceLength ==
    /\ pc = "ready"
    /\ pc' = "decodeSliceLength"
    /\ res' = decodeSliceLength(r, limit)
    /\ UNCHANGED <<r, limit, maxitems>>
    /\ UNCHANGED poolVars
    /\ UNCHANGED codec

\* A call of DecodeSlice(r, kind, limit, maxitems).
CallDecodeSlice ==
    /\ pc = "ready"
    /\ pc' = "DecodeSlice"
    /\ res' = DecodeSlice(r, limit, maxitems)
    /\ UNCHANGED <<r, limit, maxitems>>
    /\ UNCHANGED poolVars
    /\ UNCHANGED codec

Next == CallDecodeSliceLength \/ CallDecodeSlice

Spec == Init /\ [][Next]_vars

-----------------------------------------------------------------------------
(* Properties of the slice decoders, checked under Spec.                   *)

\* The stream holds a whole first offset.
HasFirstOffset == Len(r) >= 4

\* The value of the first offset slot of the stream.
FirstOffset == Uint32(SubSeq(r, 1, 4))

\* decodeSliceLength has read a first offset: it was asked to (limit >= 4)
\* and the stream held one.
ReadFirstOffset ==
    /\ pc = "decodeSliceLength"
    /\ limit >= 4
    /\ HasFirstOffset

\* C1: when the first 4 bytes of the source are the little-endian encoding
\* of firstOffset = 4*n with n >= 1, and limit >= 4, decodeSliceLength
\* succeeds and returns exactly n = firstOffset / 4 items.
C1_CountIsFirstOffsetOver4 ==
    (ReadFirstOffset /\ FirstOffset % 4 = 0 /\ FirstOffset >= 4)
        => (res.err = Nil /\ res.items = FirstOffset \div 4)

\* C2: for limit >= 4, a first offset that is not divisible by 4 makes
\* decodeSliceLength fail with the malformed-counter-offset error and
\* return no item count.
C2_NotMultipleOf4Fails ==
    (ReadFirstOffset /\ FirstOffset % 4 # 0)
        => (res.err.text = "ErrBadCouterOffset" /\ res.items = 0)

C2_Witness ==
    /\ ReadFirstOffset
    /\ FirstOffset % 4 = 2
    /\ FirstOffset > 256
    /\ res.err.text = "ErrBadCouterOffset"

\* DecodeSlice has derived an item count from the stream, and the count is
\* above the cap.
CountAboveCap ==
    /\ pc = "DecodeSlice"
    /\ decodeSliceLength(r, limit).err = Nil
    /\ decodeSliceLength(r, limit).items > maxitems

\* C3 as stated: whenever the decoded count is above max-items, DecodeSlice
\* fails with the max-items error having consumed exactly the 4 bytes of
\* the first offset, no further offset slot and no payload byte.
C3_CapFailsAfter4Bytes ==
    CountAboveCap
        => /\ res.err.unwrap = "ErrMaxItemsExceeded"
           /\ res.n = 4
           /\ res.offsets = <<>>
           /\ res.elems = <<>>

\* C3 as amended: whenever the decoded count is above max-items, DecodeSlice
\* fails with the max-items error having consumed exactly what
\* decodeSliceLength read to derive the count - the 4 bytes of the first
\* offset, or nothing when limit = 0 - and no further offset slot and no
\* payload byte.
C3_CapFailsAfterCountOnly ==
    CountAboveCap
        => /\ res.err.unwrap = "ErrMaxItemsExceeded"
           /\ res.n = (IF limit = 0 THEN 0 ELSE 4)
           /\ res.offsets = <<>>
           /\ res.elems = <<>>

C3_Witness ==
    /\ CountAboveCap
    /\ maxitems >= 0
    /\ Len(r) > 8
    /\ res.err.unwrap = "ErrMaxItemsExceeded"
    /\ res.n = 4

\* C4: decodeSliceLength with limit = 0 returns 0 items without error and
\* reads 0 bytes, whatever the source holds.
C4_EmptyRegion ==
    (pc = "decodeSliceLength" /\ limit = 0)
        => (res.items = 0 /\ res.err = Nil /\ res.n = 0)

C4_Witness ==
    /\ pc = "decodeSliceLength"
    /\ limit = 0
    /\ HasFirstOffset
    /\ FirstOffset = 8
    /\ res.n = 0

\* C5: decodeSliceLength with limit in {1, 2, 3} fails with the
\* short-offset error, whatever the source holds, and reads no byte.
C5_ShortRegion ==
    (pc = "decodeSliceLength" /\ limit \in 1..3)
        => (res.err.unwrap = "ErrShortOffset" /\ res.items = 0 /\ res.n = 0)

C5_Witness ==
    /\ pc = "decodeSliceLength"
    /\ limit = 3
    /\ HasFirstOffset
    /\ res.err.unwrap = "ErrShortOffset"

\* The stream begins with a whole offset table, of at least two entries,
\* within the cap and within the region, in which some entry is smaller
\* than the entry before it.
DecreasingTable ==
    /\ HasFirstOffset
    /\ FirstOffset % 4 = 0
    /\ FirstOffset \div 4 >= 2
    /\ FirstOffset \div 4 <= maxitems
    /\ FirstOffset <= limit
    /\ FirstOffset <= Len(r)
    /\ \E j \in 2..(FirstOffset \div 4) : SlotAt(r, 0, j) < SlotAt(r, 0, j - 1)

\* C6: DecodeSlice fails with the offset-ordering error for every offset
\* table in which some entry is smaller than the entry before it, and
\* decodes no element from such a table.
C6_DecreasingTableFails ==
    (pc = "DecodeSlice" /\ DecreasingTable)
        => (res.err.unwrap = "ErrOffsetOrdering" /\ res.elems = <<>>)

\* The sum of the entries lo..hi of a sequence of numbers.
RECURSIVE SumOf(_, _, _)
SumOf(s, lo, hi) ==
    IF lo > hi THEN 0
    ELSE IF lo = hi THEN s[lo]
    ELSE SumOf(s, lo, (lo + hi) \div 2) + SumOf(s, ((lo + hi) \div 2) + 1, hi)

\* DecodeSlice has accepted an offset table of at least one element: it
\* returned nil.
TableAccepted ==
    /\ pc = "DecodeSlice"
    /\ res.err = Nil
    /\ Len(res.offsets) >= 1

C17_TableFitsRegion ==
    (pc = "decodeSliceLength" /\ res.err = Nil) => 4 * res.items <= limit

\* C18: decodeSliceLength returns a count of 0 without error only when
\* limit = 0: a first offset of 0 is not accepted as a count.
C18_EmptyOnlyForNoRegion ==
    (pc = "decodeSliceLength" /\ res.err = Nil /\ res.items = 0)
        => limit = 0

-----------------------------------------------------------------------------
(* Properties of the pooled entry points, checked under PoolSpec.          *)

\* Goroutine p is inside a call of fn and holds its context.
Holds(p, fn) == calls[p].fn = fn /\ calls[p].pc \in Holding

\* The contexts handed out by Get and not yet handed back by Put.
EncCheckedOut == encLive \ encoderPool

DecCheckedOut == decLive \ decoderPool

\* C7: under any interleaving of concurrent Encode and Decode calls, no
\* Encoder or Decoder is held by two in-flight calls at once: between a
\* call's Get and its Put no other call obtains the same instance, and the
\* instance is not in the pool.
C7_ExclusiveContext ==
    /\ \A p \in Procs, q \in Procs, fn \in {"Encode", "Decode"} :
          (p # q /\ Holds(p, fn) /\ Holds(q, fn))
              => calls[p].ctx # calls[q].ctx
    /\ \A p \in Procs :
          /\ Holds(p, "Encode") => calls[p].ctx \in EncCheckedOut
          /\ Holds(p, "Decode") => calls[p].ctx \in DecCheckedOut

\* Two Encode calls are in flight at once, one of them on a recycled
\* Encoder, while an idle Encoder cannot be in the pool.
C7_Witness ==
    /\ Holds(1, "Encode")
    /\ Holds(2, "Encode")
    /\ calls[1].pc = "bound"
    /\ calls[2].pc = "ran"
    /\ calls[1].k = 2
    /\ calls[1].ctx # calls[2].ctx

\* C8: when Encode or Decode runs the object on its context, the context
\* has been rebound: its error slot is empty, its sink or source is the
\* current call's, and for Decode its budget is the call's size, whatever
\* the previous user left in it; and the error a call returns is nil or one
\* that arose in this very call.
C8_ReboundBeforeUse ==
    \A p \in Procs :
        /\ (calls[p].pc = "bound" /\ calls[p].fn = "Encode")
              => /\ encs[calls[p].ctx].err = Nil
                 /\ encs[calls[p].ctx].out = calls[p].io
        /\ (calls[p].pc = "bound" /\ calls[p].fn = "Decode")
              => /\ decs[calls[p].ctx].err = Nil
                 /\ decs[calls[p].ctx].in = calls[p].io
                 /\ decs[calls[p].ctx].length = calls[p].size
        /\ (calls[p].pc \in {"returning", "done"} /\ calls[p].ret # Panic)
              => \/ calls[p].ret = Nil
                 \/ /\ calls[p].ret # Nil
                    /\ calls[p].ret.by = Ref(p, calls[p].k)

\* A Decode call stands bound on a recycled Decoder that came out of the
\* pool with another call's source, a latched error and a budget other
\* than this call's size.
C8_Witness ==
    \E p \in Procs :
        /\ calls[p].pc = "bound"
        /\ calls[p].fn = "Decode"
        /\ calls[p].got.err # Nil
        /\ calls[p].got.in # NoRef
        /\ calls[p].got.length # calls[p].size
        /\ decs[calls[p].ctx].err = Nil

\* C9: every context sitting idle in the pool has its sink or source
\* binding cleared: after Encode or Decode has released its context, the
\* context no longer refers to that call's sink or source.
C9_IdleContextUnbound ==
    /\ \A c \in encoderPool : encs[c].out = NoRef
    /\ \A c \in decoderPool : decs[c].in = NoRef

\* No goroutine is inside a call.
AllReturned == \A p \in Procs : calls[p].pc \in {"idle", "done"}

\* C10: every Encode and Decode call that has acquired a context hands it
\* back to the pool exactly once, whether it returns nil, returns an error
\* or panics: a call that holds a context can always take its next step
\* (so, every call running to completion, it does reach its Put), a
\* finished call has run Put once, and once all calls have finished no
\* context is checked out.
C10_ContextReturned ==
    /\ \A p \in Procs :
          /\ calls[p].pc \in Holding => ENABLED CallStep(p)
          /\ calls[p].pc \in Holding => calls[p].puts = 0
          /\ calls[p].pc = "done" => calls[p].puts = 1
    /\ AllReturned => (EncCheckedOut = {} /\ DecCheckedOut = {})

\* The eventuality behind C10, under the fairness of PoolSpec: a call that
\* holds a context does finish.
EveryCallFinishes ==
    \A p \in Procs : (calls[p].pc \in Holding) ~> (calls[p].pc = "done")

\* Both goroutines have finished, one of them its second call by a panic
\* and the other with an error, each has run Put once, and nothing is
\* checked out while contexts exist.
C10_Witness ==
    /\ calls[1].pc = "done"
    /\ calls[2].pc = "done"
    /\ calls[1].k = 2
    /\ encLive # {}
    /\ decLive # {}
    /\ calls[1].ret = Panic
    /\ calls[2].ret \notin {Nil, Panic}
    /\ calls[1].puts = 1
    /\ calls[2].puts = 1
    /\ EncCheckedOut = {}
    /\ DecCheckedOut = {}

\* What call k of goroutine p returns when it runs alone, its object
\* behaving as obj: nil, the error the object latched, or the panic.
AloneResult(p, k, obj) ==
    IF obj = "ok" THEN Nil
    ELSE IF obj = "fail" THEN ErrOf(p, k)
    ELSE Panic

\* C12: concurrent Encode and Decode calls on independent objects each
\* work as the same call does alone, for every interleaving: the object
\* writes to (reads from) the call's own sink (source), a Decode runs its
\* object with a budget of size, and the call returns what it returns
\* alone.
C12_AsWhenAlone ==
    \A p \in Procs :
        /\ calls[p].pc \in {"ran", "returning", "panicking"}
              => /\ calls[p].used.io = Ref(p, calls[p].k)
                 /\ calls[p].fn = "Decode"
                       => calls[p].used.length = calls[p].size
        /\ calls[p].pc \in {"returning", "done"}
              => calls[p].ret = AloneResult(p, calls[p].k, calls[p].obj)

\* Two Decode calls are in flight at once, past their objects, the one on
\* a second call having succeeded and the other having failed.
C12_Witness ==
    /\ calls[1].fn = "Decode"
    /\ calls[2].fn = "Decode"
    /\ calls[1].pc = "returning"
    /\ calls[2].pc = "returning"
    /\ calls[1].k = 2
    /\ calls[1].size = 6
    /\ calls[2].size = 0
    /\ calls[1].obj = "ok"
    /\ calls[2].obj = "fail"
    /\ calls[1].ret = Nil
    /\ calls[2].ret = ErrOf(2, 1)


-----------------------------------------------------------------------------
(* One Encode of a value, operation by operation, and the Decode of the    *)
(* bytes it wrote.  A value is a record of one fixed 4-byte field a and    *)
(* one dynamic byte-list field b, or a list of dynamic elements, each      *)
(* element standing for its own encoding.                                  *)

Rec(a, b) == [kind |-> "record", a |-> a, b |-> b, items |-> <<>>]

List(items) == [kind |-> "list", a |-> 0, b |-> <<>>, items |-> items]

\* The encodings of the elements of a list.
Elems == { <<>>, <<1>> }

\* The lists of up to MaxList elements, and two lists of 64.
Lists ==
    UNION { [1..n -> Elems] : n \in 0..MaxList }
        \cup { [i \in 1..64 |-> <<>>],
               [i \in 1..64 |-> IF i = 64 THEN <<1>> ELSE <<>>] }

Values ==
    { Rec(a, b) : a \in {0, 16909060}, b \in {<<>>, <<170, 187>>} }
        \cup { List(items) : items \in Lists }

\* How many bytes the sink of the Encode accepts before its writes fail;
\* 1000 is more than any encoding here.
Rooms == {0, 6, 9, 1000}

\* The size argument of the Decode: -1 stands for the number of bytes the
\* Encode wrote.
SizeArgs == {-1, 0, 4, 6}

\* A context as an earlier call of another goroutine left it in the pool.
StaleEncoder == [out |-> Ref(2, 1), err |-> ErrOf(2, 1)]

StaleDecoder == [in |-> Ref(2, 1), length |-> 3, err |-> ErrOf(2, 1)]

\* The error of the sink refusing the write of operation i.
ErrWrite(i) == [text |-> "ErrShortWrite", unwrap |-> "ErrShortWrite", by |-> i]

\* The offset table of a list: slot i holds where element i starts, counted
\* from the start of the list's encoding; the first element starts right
\* after the table.
EncodeOffsets(items) ==
    LET lens == [i \in 1..Len(items) |-> Len(items[i])] IN
    Wire([i \in 1..Len(items) |-> 4 * Len(items) + SumOf(lens, 1, i - 1)])

\* The writes the object makes on the Encoder, in order.  A record: the
\* fixed field inline, the offset of the dynamic field (it starts after the
\* 8 bytes of the fixed part), the payload.  A list: the offset table, then
\* every element.
EncodeOps(v) ==
    IF v.kind = "record"
    THEN << PutUint32(v.a), PutUint32(8), v.b >>
    ELSE IF Len(v.items) = 0 THEN <<>>
    ELSE <<EncodeOffsets(v.items)>> \o v.items

\* One write of the object on the Encoder, operation i of the call: nothing
\* once an error is latched; else the chunk goes to the sink, which takes it
\* whole or refuses it, and a refusal is latched.
EncWrite(e, sink, room, chunk, i) ==
    IF e.err # Nil THEN [enc |-> e, sink |-> sink]
    ELSE IF Len(sink) + Len(chunk) <= room
    THEN [enc |-> e, sink |-> sink \o chunk]
    ELSE [enc |-> [e EXCEPT !.err = Latch(e.err, ErrWrite(i))], sink |-> sink]

\* A plausible slip: the call reports success whatever the context holds.
ReturnNil(ctx) == Nil

\* return enc.err, return dec.err
ReturnErr(ctx) == ctx.err

\* One read of n bytes by the object on the Decoder, rf being what
\* io.ReadFull yields for it: nothing once an error is latched; a read
\* larger than the remaining budget is refused unread; else the bytes are
\* read, the budget goes down by what was read, and a source that ends
\* early is latched.
DecRead(d, n, rf) ==
    IF d.err # Nil THEN [dec |-> d, buf |-> <<>>, n |-> 0]
    ELSE IF n > d.length
    THEN [dec |-> [d EXCEPT !.err = Latch(d.err, Sentinel("ErrBudgetExceeded"))],
          buf |-> <<>>, n |-> 0]
    ELSE [dec |-> [d EXCEPT !.length = d.length - rf.n,
                            !.err = Latch(d.err, rf.err)],
          buf |-> rf.buf, n |-> rf.n]

\* The bytes of the elements DecodeSlice decoded from a region that holds
\* src: element i lies at its offset, the first right after the table.
ElementBytes(src, d) ==
    [i \in 1..Len(d.elems) |->
        SubSeq(src,
               4 * Len(d.offsets) + d.offsets[i] - d.offsets[1] + 1,
               4 * Len(d.offsets) + d.offsets[i] - d.offsets[1] + d.elems[i])]

\* The list decoded by the object on the Decoder, ds being what
\* DecodeSlice yields on the rest src of the source with the remaining
\* budget as region: nothing once an error is latched; else the budget goes
\* down by what was read, to no less than 0, and an error is latched.
DecList(d, src, ds) ==
    IF d.err # Nil THEN [dec |-> d, items |-> <<>>, n |-> 0]
    ELSE [dec |-> [d EXCEPT !.length = IF ds.n <= d.length
                                        THEN d.length - ds.n ELSE 0,
                            !.err = Latch(d.err, ds.err)],
          items |-> IF ds.err = Nil THEN ElementBytes(src, ds) ELSE <<>>,
          n |-> ds.n]

\* The reads the object makes on the Decoder, in order.
DecodeOps(v) ==
    IF v.kind = "record" THEN <<"a", "offset", "b">> ELSE <<"slice">>

\* The value a Decode fills in, before its first read.
ZeroValue(v) == IF v.kind = "record" THEN Rec(0, <<>>) ELSE List(<<>>)

\* The call c after the object has decoded its list, l being what DecList
\* yields.
DecodeOpSlice(c, l) ==
    [dec |-> l.dec, n |-> l.n, out |-> [c.out EXCEPT !.items = l.items]]

\* The call c after read op of a record, rd being what DecRead yields: the
\* fixed field is the word read, the offset must name the end of the 8-byte
\* fixed part, the payload is the bytes read.
DecodeOpRead(c, op, rd) ==
    IF c.dec.err # Nil \/ rd.dec.err # Nil
    THEN [dec |-> rd.dec, n |-> rd.n, out |-> c.out]
    ELSE IF op = "a"
    THEN [dec |-> rd.dec, n |-> rd.n,
          out |-> [c.out EXCEPT !.a = Uint32(rd.buf)]]
    ELSE IF op = "offset"
    THEN [dec |-> IF Uint32(rd.buf) # 8
                  THEN [rd.dec EXCEPT !.err = Sentinel("ErrBudgetExceeded")]
                  ELSE rd.dec,
          n |-> rd.n, out |-> c.out]
    ELSE [dec |-> rd.dec, n |-> rd.n, out |-> [c.out EXCEPT !.b = rd.buf]]

\* How many bytes read op of a record asks for: 4 for the fixed field and
\* for the offset, the rest of the budget for the payload of the last
\* dynamic field.
ReadLen(c, op) == IF op = "b" THEN c.dec.length ELSE 4

\* Operation op of the object on the Decoder, the call being in state c.
DecodeOp(c, op) ==
    IF op = "slice"
    THEN DecodeOpSlice(c, DecList(c.dec, Drop(c.sink, c.nread),
                                  DecodeSlice(Drop(c.sink, c.nread),
                                              c.dec.length, c.cap)))
    ELSE DecodeOpRead(c, op,
                      DecRead(c.dec, ReadLen(c, op),
                              ReadFull(Drop(c.sink, c.nread), ReadLen(c, op))))

\* The call c after an operation of the object on the Decoder, o being
\* what DecodeOp yields.  grew records a budget that went up.
AfterDecodeOp(c, o) ==
    [c EXCEPT !.dec = o.dec,
              !.nread = c.nread + o.n,
              !.out = o.out,
              !.dtodo = Tail(c.dtodo),
              !.grew = c.grew \/ o.dec.length > c.dec.length]

\* The call c after a write of the object on the Encoder, w being what
\* EncWrite yields.
AfterEncodeOp(c, w) ==
    [c EXCEPT !.enc = w.enc, !.sink = w.sink, !.todo = Tail(c.todo),
              !.ops = c.ops + 1]

\* The size the Decode is called with.
SizeOf(c) == IF c.sizeArg = -1 THEN Len(c.sink) ELSE c.sizeArg

\* A value to encode, a sink, a size for the Decode, and the two contexts
\* the pools hand out: new ones or ones an earlier call used.
CodecStart ==
    codec \in { [NoCodec EXCEPT !.pc = "start", !.val = v, !.room = m,
                                !.sizeArg = z, !.cap = 64,
                                !.enc = e, !.dec = d] :
                  v \in Values, m \in Rooms, z \in SizeArgs,
                  e \in {NewEncoder, StaleEncoder},
                  d \in {NewDecoder, StaleDecoder} }

CodecInit == CodecStart /\ SliceIdle /\ PoolInit

\* Encode, lines 59-62: the context from the pool is bound to the sink.
CodecEncodeBind ==
    /\ codec.pc = "start"
    /\ codec' = [codec EXCEPT !.pc = "encoding",
                              !.enc = BindEncoder(codec.enc, Ref(1, 1)),
                              !.todo = EncodeOps(codec.val)]
    /\ UNCHANGED <<sliceVars, poolVars>>

\* Encode, line 63: obj.EncodeSSZ(enc), one write of the object.
CodecEncodeOp ==
    /\ codec.pc = "encoding"
    /\ codec.todo # <<>>
    /\ codec' = AfterEncodeOp(codec,
                              EncWrite(codec.enc, codec.sink, codec.room,
                                       Head(codec.todo), codec.ops + 1))
    /\ UNCHANGED <<sliceVars, poolVars>>

\* Encode, line 64: return enc.err.
CodecEncodeReturn ==
    /\ codec.pc = "encoding"
    /\ codec.todo = <<>>
    /\ codec' = [codec EXCEPT !.pc = "encoded",
                              !.encRet = ReturnErr(codec.enc)]
    /\ UNCHANGED <<sliceVars, poolVars>>

\* Decode, lines 69-72: the context from the pool is bound to what the
\* Encode wrote and to the size.
CodecDecodeBind ==
    /\ codec.pc = "encoded"
    /\ codec' = [codec EXCEPT !.pc = "decoding",
                              !.size = SizeOf(codec),
                              !.dec = BindDecoder(codec.dec, Ref(1, 2),
                                                  SizeOf(codec)),
                              !.dtodo = DecodeOps(codec.val),
                              !.out = ZeroValue(codec.val)]
    /\ UNCHANGED <<sliceVars, poolVars>>

\* Decode, line 73: obj.DecodeSSZ(dec), one read of the object.
CodecDecodeOp ==
    /\ codec.pc = "decoding"
    /\ codec.dtodo # <<>>
    /\ codec' = AfterDecodeOp(codec, DecodeOp(codec, Head(codec.dtodo)))
    /\ UNCHANGED <<sliceVars, poolVars>>

\* Decode, line 74: return dec.err.
CodecDecodeReturn ==
    /\ codec.pc = "decoding"
    /\ codec.dtodo = <<>>
    /\ codec' = [codec EXCEPT !.pc = "done",
                              !.decRet = ReturnErr(codec.dec)]
    /\ UNCHANGED <<sliceVars, poolVars>>

CodecNext ==
    \/ CodecEncodeBind
    \/ CodecEncodeOp
    \/ CodecEncodeReturn
    \/ CodecDecodeBind
    \/ CodecDecodeOp
    \/ CodecDecodeReturn

CodecSpec == CodecInit /\ [][CodecNext]_vars

-----------------------------------------------------------------------------
(* Properties of one Encode and the Decode of what it wrote, checked under *)
(* CodecSpec.                                                              *)

\* How many bytes each write of the object hands to the Encoder.
EncLens(chunks) == [j \in 1..Len(chunks) |-> Len(chunks[j])]

\* The first write the sink refuses, the writes having the lengths lens and
\* the sink taking room bytes: the first that would bring the total above
\* room.  0 when the sink takes them all.
FirstRefused(lens, room) ==
    IF \A j \in 1..Len(lens) : SumOf(lens, 1, j) <= room THEN 0
    ELSE CHOOSE j \in 1..Len(lens) :
             /\ SumOf(lens, 1, j) > room
             /\ \A i \in 1..(j - 1) : SumOf(lens, 1, i) <= room

\* The error of an Encode whose first refused write is f.
FirstError(f) == IF f = 0 THEN Nil ELSE ErrWrite(f)

\* The Encoder holds the error of the first refused write among those made
\* so far, the sink holds what was written before it, and the Encode has
\* returned that error.
FirstErrorKept(c, lens, f) ==
    /\ c.pc = "encoding"
          => /\ c.enc.err = IF f \in 1..c.ops THEN ErrWrite(f) ELSE Nil
             /\ Len(c.sink) = SumOf(lens, 1, IF f \in 1..c.ops THEN f - 1
                                             ELSE c.ops)
    /\ c.pc \in {"encoded", "decoding", "done"}
          => /\ c.encRet = FirstError(f)
             /\ Len(c.sink) = SumOf(lens, 1, IF f = 0 THEN Len(lens) ELSE f - 1)

EncoderKeepsFirstError ==
    FirstErrorKept(codec, EncLens(EncodeOps(codec.val)),
                   FirstRefused(EncLens(EncodeOps(codec.val)), codec.room))

\* A step of a call whose context holds an error leaves the error, the
\* sink and the source position alone, and the call returns that error; a
\* call whose context holds none returns nil.
LatchStep ==
    /\ (codec.pc = "encoding" /\ codec.enc.err # Nil)
          => /\ codec'.enc.err = codec.enc.err
             /\ codec'.sink = codec.sink
             /\ codec'.pc = "encoded" => codec'.encRet = codec.enc.err
    /\ (codec.pc = "decoding" /\ codec.dec.err # Nil)
          => /\ codec'.dec = codec.dec
             /\ codec'.nread = codec.nread
             /\ codec'.pc = "done" => codec'.decRet = codec.dec.err
    /\ (codec.pc = "encoding" /\ codec.enc.err = Nil /\ codec'.pc = "encoded")
          => codec'.encRet = Nil
    /\ (codec.pc = "decoding" /\ codec.dec.err = Nil /\ codec'.pc = "done")
          => codec'.decRet = Nil

RoundTrip ==
    /\ codec.pc = "done"
    /\ codec.encRet = Nil
    /\ codec.sizeArg = -1

\* C13: decoding the bytes produced by encoding a dynamic value v, with
\* size set to the length of those bytes, succeeds and yields a value equal
\* to v.
C13_RoundTrip == RoundTrip => (codec.decRet = Nil /\ codec.out = codec.val)

\* The values that do come back: the records, the empty list and the lists
\* of 64 elements, whose first offset is 256.
RoundTripExceptShortLists ==
    (RoundTrip /\ (codec.val.kind = "list" => Len(codec.val.items) \in {0, 64}))
        => (codec.decRet = Nil /\ codec.out = codec.val)

\* A list of 1 to MaxList elements does not come back: its first offset is
\* not a multiple of 256 and decodeSliceLength refuses it.
ShortListRefused ==
    (RoundTrip /\ codec.val.kind = "list"
               /\ Len(codec.val.items) \in 1..MaxList)
        => codec.decRet = Errorf("%s", "ErrBadCouterOffset")

\* The record of the example: the fixed field 0x01020304 and the dynamic
\* byte list [0xAA, 0xBB].
ExampleRecord == Rec(16909060, <<170, 187>>)

\* The example record has been encoded whole.
ExampleEncoded ==
    /\ codec.pc \in {"encoded", "decoding", "done"}
    /\ codec.val = ExampleRecord
    /\ codec.encRet = Nil

Decoding == codec.pc \in {"decoding", "done"}

\* The budget is size before the first read of the object, has never gone
\* up, and the bytes read from the source so far are at most size.
WithinBudget(c) ==
    /\ (c.pc = "decoding" /\ c.dtodo = DecodeOps(c.val)) => c.dec.length = c.size
    /\ ~c.grew
    /\ c.dec.length <= c.size
    /\ c.nread <= c.size

BudgetRespectedUnlessTableBeyondSize ==
    (Decoding /\ (codec.val.kind = "list"
                    => 4 * Len(codec.val.items) <= codec.size))
        => WithinBudget(codec)

=============================================================================
